---- MODULE Spec2Model ----
(***************************************************************************)
(* A model of the tokenizer subsystem of oairs: the Tokenizer and          *)
(* SpecialToken types and the three tokenize entry points of               *)
(* src/src/tokenizers/tokenizer.rs, the lazily initialised singletons of   *)
(* src/src/tokenizers/singletons.rs, and the Core BPE Engine they call.    *)
(*                                                                         *)
(* The engine (vendor_tiktoken::CoreBPE) and the vocabulary constructors   *)
(* (openai_public::r50k_base and friends) are modelled from sections 3 and *)
(* 4 of the specification over a small rank table; texts are sequences of  *)
(* bytes (ASCII codes).                                                    *)
(***************************************************************************)
EXTENDS Integers, Sequences, FiniteSets, TLC

VARIABLES
    text,             \* tokenize*: the `text` argument
    tokenizer,        \* tokenize*: the `tokenizer` argument
    allowed_special,  \* tokenize_custom: the `allowed_special` argument
    op,               \* the entry point that returned last
    result,           \* what it returned
    loads,            \* per Tokenizer: how often its vocabulary constructor ran
    chunk,            \* merge loop: the chunk being encoded
    parts,            \* merge loop: the current parts of the chunk
    merged_at,        \* merge loop: index of the pair merged by the last step
    done,             \* merge loop: no pair of parts is in the rank table
    cell,             \* singletons: per encoding name, its static OnceCell
    pc,               \* singletons: where each caller is
    target,           \* singletons: the encoding name a caller asked for
    handle,           \* singletons: the Arc a caller holds
    waited,           \* singletons: the caller blocked in get_or_init
    constructed,      \* singletons: per encoding name, constructor runs
    returned,         \* singletons: per encoding name, the instances handed out
    holders,          \* singletons: the held mutexes, <<instance, caller>>
    pending,          \* stream: the bytes the server has yet to deliver
    slice,            \* stream: the unparsed bytes the caller holds
    last,             \* stream: the parser call made last on these bytes
    prev,             \* stream: the parser call made before it
    retried,          \* stream: bytes arrived since a chunk call was Incomplete
    obj,              \* stream: the object the last successful chunk call returned
    done_found,       \* stream: nom_til_done has found the sentinel
    parsed_after_done, \* stream: an object was extracted after that
    received,         \* stream: every byte the caller has received so far
    objects,          \* stream: the objects the chunk calls have returned, in order
    model_name,       \* models: the `model_name` argument
    encoding,         \* models: what encoding_for_model returned
    resolved,         \* models: encoding_for_model has returned
    ids,              \* decode: the `tokens` argument of the last decode
    decoded,          \* decode: what it returned
    called,           \* decode: the call made last on the encoding
    failed,           \* decode: a decode before that call returned an error
    prompt,           \* CompletionBuilder: the field `prompt`
    suffix,           \* CompletionBuilder: the field `suffix`
    echo,             \* CompletionBuilder: the field `echo`
    panicked,         \* CompletionBuilder: a setter has panicked
    setter,           \* CompletionBuilder: the setter called last, and on what
    data,             \* Messages: the field `data`
    msg_tokens,       \* Messages: the field `tokens`
    save_with_tokens, \* Messages: the field `save_with_tokens`
    method            \* Messages: the method called last

tokVars == <<text, tokenizer, allowed_special, op, result, loads>>
mergeVars == <<chunk, parts, merged_at, done>>
singVars == <<cell, pc, target, handle, waited, constructed, returned, holders>>
streamVars ==
    <<pending, slice, last, prev, retried, obj, done_found, parsed_after_done,
      received, objects>>
modelVars == <<model_name, encoding, resolved>>
decVars == <<ids, decoded, called, failed>>
builderVars == <<prompt, suffix, echo, panicked, setter>>
msgVars == <<data, msg_tokens, save_with_tokens, method>>
notTokVars ==
    <<mergeVars, singVars, streamVars, modelVars,
      decVars, builderVars, msgVars>>
notMergeVars ==
    <<tokVars, singVars, streamVars, modelVars,
      decVars, builderVars, msgVars>>
notSingVars ==
    <<tokVars, mergeVars, streamVars, modelVars,
      decVars, builderVars, msgVars>>
notStreamVars ==
    <<tokVars, mergeVars, singVars, modelVars,
      decVars, builderVars, msgVars>>
notModelVars ==
    <<tokVars, mergeVars, singVars, streamVars,
      decVars, builderVars, msgVars>>
notDecVars ==
    <<tokVars, mergeVars, singVars, streamVars,
      modelVars, builderVars, msgVars>>
notBuilderVars ==
    <<tokVars, mergeVars, singVars, streamVars,
      modelVars, decVars, msgVars>>
notMsgVars ==
    <<tokVars, mergeVars, singVars, streamVars,
      modelVars, decVars, builderVars>>
vars ==
    <<tokVars, mergeVars, singVars, streamVars, modelVars, decVars,
      builderVars, msgVars>>

----------------------------------------------------------------------------
(* Bounds of the model.                                                    *)

\* texts are concatenations of at most MaxPieces pieces
MaxPieces == 3
\* each behaviour runs the vocabulary constructor at most MaxLoads times
MaxLoads == 2
\* chunks given to the merge loop have at most MaxChunkLen bytes
MaxChunkLen == 4
\* the callers of the singleton accessors
NumCallers == 2

----------------------------------------------------------------------------
(* Tokenizer and SpecialToken (tokenizer.rs).                              *)

Tokenizer == {"R50KBase", "P50KBase", "P50KEdit", "CL100KBase"}

SpecialToken_ALL ==
    <<"EndOfText", "FimPrefix", "FimMiddle", "FimSuffix", "EndOfPrompt">>

SpecialToken == {SpecialToken_ALL[i] : i \in 1..Len(SpecialToken_ALL)}

Tokenizer_to_str(t) ==
    CASE t = "R50KBase" -> "r50k_base"
      [] t = "P50KBase" -> "p50k_base"
      [] t = "P50KEdit" -> "p50k_edit"
      [] t = "CL100KBase" -> "cl100k_base"

\* The sentinel strings, as bytes.
SpecialToken_to_str(s) ==
    CASE s = "EndOfText" ->      \* <|endoftext|>
           <<60, 124, 101, 110, 100, 111, 102, 116, 101, 120, 116, 124, 62>>
      [] s = "FimPrefix" ->      \* <|fim_prefix|>
           <<60, 124, 102, 105, 109, 95, 112, 114, 101, 102, 105, 120, 124, 62>>
      [] s = "FimMiddle" ->      \* <|fim_middle|>
           <<60, 124, 102, 105, 109, 95, 109, 105, 100, 100, 108, 101, 124, 62>>
      [] s = "FimSuffix" ->      \* <|fim_suffix|>
           <<60, 124, 102, 105, 109, 95, 115, 117, 102, 102, 105, 120, 124, 62>>
      [] s = "EndOfPrompt" ->    \* <|endofprompt|>
           <<60, 124, 101, 110, 100, 111, 102, 112, 114, 111, 109, 112, 116, 124, 62>>

\* SpecialTokens is a wrapper around a HashSet<SpecialToken>: a set.
SpecialTokens_from_vec(v) == {v[i] : i \in 1..Len(v)}

SpecialTokens_contains(set, token) == token \in set

SpecialTokens_to_str_set(set) == {SpecialToken_to_str(s) : s \in set}

\* a filter that keeps the token it is to drop
recognized_special_filter_inverted(t) ==
    CASE t = "CL100KBase" -> SpecialTokens_from_vec(SpecialToken_ALL)
      [] t = "P50KEdit" ->
           SpecialTokens_from_vec(
               SelectSeq(SpecialToken_ALL, LAMBDA x : x = "EndOfPrompt"))
      [] OTHER -> SpecialTokens_from_vec(<<"EndOfText">>)

recognized_special(t) ==
    CASE t = "CL100KBase" -> SpecialTokens_from_vec(SpecialToken_ALL)
      [] t = "P50KEdit" ->
           SpecialTokens_from_vec(
               SelectSeq(SpecialToken_ALL, LAMBDA x : x # "EndOfPrompt"))
      [] OTHER -> SpecialTokens_from_vec(<<"EndOfText">>)

----------------------------------------------------------------------------
(* Vocabulary Loader: the rank tables and special token tables of the four *)
(* encodings (openai_public), from sections 3 and 4.1 of the               *)
(* specification.  A rank table is given as the sequence of its byte       *)
(* strings; the rank (id) of the i-th entry is i - 1, so ids are dense.    *)
(* Every table holds every single byte of the texts of the model.          *)

ByteAlphabet ==
    <<32, 60, 62, 95, 97, 98, 100, 101, 102, 105, 108, 109, 110, 111, 112,
      114, 115, 116, 117, 120, 124>>

SingleBytes == [i \in 1..Len(ByteAlphabet) |-> <<ByteAlphabet[i]>>]

\* " a", "aa", "ab", "te", "en", "xt", "<|", "|>", "end", "text", "of",
\* "fi", "fim", "aab"
R50K_merges ==
    << <<32, 97>>, <<97, 97>>, <<97, 98>>, <<116, 101>>, <<101, 110>>,
       <<120, 116>>, <<60, 124>>, <<124, 62>>, <<101, 110, 100>>,
       <<116, 101, 120, 116>>, <<111, 102>>, <<102, 105>>,
       <<102, 105, 109>>, <<97, 97, 98>> >>

\* p50k adds whitespace runs to r50k: "  "
P50K_extra == << <<32, 32>> >>

\* "ab", "aa", "ex", "te", " a", "|>", "<|", "ba", "ext", "pt", "of", "dd"
CL100K_merges ==
    << <<97, 98>>, <<97, 97>>, <<101, 120>>, <<116, 101>>, <<32, 97>>,
       <<124, 62>>, <<60, 124>>, <<98, 97>>, <<101, 120, 116>>,
       <<112, 116>>, <<111, 102>>, <<100, 100>> >>

\* The sentinels with a reserved id, in id order.
R50K_special == <<"EndOfText">>
P50K_EDIT_special == <<"EndOfText", "FimPrefix", "FimMiddle", "FimSuffix">>
CL100K_special ==
    <<"EndOfText", "FimPrefix", "FimMiddle", "FimSuffix", "EndOfPrompt">>

\* CoreBPE::new: the rank table in both directions (encoder: byte string to
\* rank, decoder: rank + 1 to byte string) and the special token table,
\* whose ids follow the ids of the rank table.
CoreBPE_new(name, table, special) ==
    [name |-> name,
     encoder |->
         [piece \in {table[i] : i \in 1..Len(table)} |->
             (CHOOSE i \in 1..Len(table) : table[i] = piece) - 1],
     decoder |-> table,
     special_tokens_encoder |->
         [s \in {SpecialToken_to_str(special[i]) : i \in 1..Len(special)} |->
             Len(table) - 1 +
             CHOOSE i \in 1..Len(special) : SpecialToken_to_str(special[i]) = s]]

\* The vocabulary constructors.  The data is bundled with the program and
\* well formed: they return Ok.
r50k_base ==
    [ok |-> TRUE,
     bpe |-> CoreBPE_new("r50k_base", SingleBytes \o R50K_merges, R50K_special)]

p50k_base ==
    [ok |-> TRUE,
     bpe |-> CoreBPE_new("p50k_base", SingleBytes \o R50K_merges \o P50K_extra,
                         R50K_special)]

p50k_edit ==
    [ok |-> TRUE,
     bpe |-> CoreBPE_new("p50k_edit", SingleBytes \o R50K_merges \o P50K_extra,
                         P50K_EDIT_special)]

cl100k_base ==
    [ok |-> TRUE,
     bpe |-> CoreBPE_new("cl100k_base", SingleBytes \o CL100K_merges,
                         CL100K_special)]

\* The encoding with the given name (Tokenizer::to_str gives the names).
encoding_named(name) ==
    CASE name = "r50k_base" -> r50k_base.bpe
      [] name = "p50k_base" -> p50k_base.bpe
      [] name = "p50k_edit" -> p50k_edit.bpe
      [] name = "cl100k_base" -> cl100k_base.bpe

----------------------------------------------------------------------------
(* Core BPE Engine (vendor_tiktoken::CoreBPE), from section 4.4 of the     *)
(* specification.                                                          *)

NoRank == -1

\* The rank of a byte string in a rank table, NoRank when it is no key.
rank_of(encoder, piece) ==
    IF piece \in DOMAIN encoder THEN encoder[piece] ELSE NoRank

\* a scan that keeps the first pair that is in the table
RECURSIVE min_rank_scan_first(_, _, _, _)
min_rank_scan_first(encoder, ps, i, best) ==
    IF i >= Len(ps) THEN best
    ELSE LET r == rank_of(encoder, ps[i] \o ps[i + 1])
         IN  min_rank_scan_first(encoder, ps, i + 1,
                 IF r # NoRank /\ best[1] = NoRank THEN <<r, i>> ELSE best)

\* One scan over the adjacent pairs of parts from pair i on: best is
\* <<rank, index>> of the lowest rank seen so far (<<NoRank, 0>>: none); a
\* later pair replaces it only when its rank is strictly lower.
RECURSIVE min_rank_scan(_, _, _, _)
min_rank_scan(encoder, ps, i, best) ==
    IF i >= Len(ps) THEN best
    ELSE LET r == rank_of(encoder, ps[i] \o ps[i + 1])
         IN  min_rank_scan(encoder, ps, i + 1,
                 IF r # NoRank /\ (best[1] = NoRank \/ r < best[1])
                 THEN <<r, i>> ELSE best)

\* The index of the pair the next merge step takes, 0 when no pair merges.
merge_index(encoder, ps) == min_rank_scan(encoder, ps, 1, <<NoRank, 0>>)[2]

\* a merge that keeps the right part of the pair next to the merged part
merge_at_keeping_right(ps, i) ==
    SubSeq(ps, 1, i - 1) \o <<ps[i] \o ps[i + 1]>> \o SubSeq(ps, i + 1, Len(ps))

\* parts with the pair at index i merged into one part
merge_at(ps, i) ==
    SubSeq(ps, 1, i - 1) \o <<ps[i] \o ps[i + 1]>> \o SubSeq(ps, i + 2, Len(ps))

\* The merge loop: merge the chosen pair until no pair is in the table.
RECURSIVE byte_pair_merge(_, _)
byte_pair_merge(encoder, ps) ==
    LET i == merge_index(encoder, ps)
    IN  IF i = 0 THEN ps ELSE byte_pair_merge(encoder, merge_at(ps, i))

\* The ids of one chunk: its bytes, merged, each final part mapped to its id.
byte_pair_encode(piece, encoder) ==
    LET final == byte_pair_merge(encoder, [i \in 1..Len(piece) |-> <<piece[i]>>])
    IN  [i \in 1..Len(final) |-> rank_of(encoder, final[i])]

\* Pre-tokenization: the classes of the splitting pattern.
char_class(b) ==
    IF b \in {9, 10, 13, 32} THEN "space"
    ELSE IF b \in (65..90) \cup (97..122) THEN "letter"
    ELSE IF b \in 48..57 THEN "digit"
    ELSE "other"

\* the last index of the run of class c that starts at i (i - 1: empty run)
RECURSIVE run_end(_, _, _)
run_end(t, i, c) ==
    IF i <= Len(t) /\ char_class(t[i]) = c THEN run_end(t, i + 1, c) ELSE i - 1

\* The last index of the chunk that starts at i:
\*   " ?letters+ | ?digits+ | ?others+ |\s+(?!\S)|\s+"
chunk_end(t, i) ==
    IF t[i] = 32 /\ i < Len(t) /\ char_class(t[i + 1]) # "space"
    THEN run_end(t, i + 1, char_class(t[i + 1]))
    ELSE IF char_class(t[i]) # "space"
    THEN run_end(t, i, char_class(t[i]))
    ELSE LET e == run_end(t, i, "space")
         IN  IF e < Len(t) /\ e > i THEN e - 1 ELSE e

RECURSIVE split_from(_, _)
split_from(t, i) ==
    IF i > Len(t) THEN <<>>
    ELSE LET e == chunk_end(t, i)
         IN  <<SubSeq(t, i, e)>> \o split_from(t, e + 1)

\* the chunks of a text, in order
split(t) == split_from(t, 1)

RECURSIVE encode_chunks(_, _, _)
encode_chunks(bpe, chunks, i) ==
    IF i > Len(chunks) THEN <<>>
    ELSE byte_pair_encode(chunks[i], bpe.encoder) \o encode_chunks(bpe, chunks, i + 1)

\* CoreBPE::encode_ordinary
encode_ordinary(bpe, t) == encode_chunks(bpe, split(t), 1)

\* s occurs in t at index i
occurs_at(t, i, s) == i + Len(s) - 1 <= Len(t) /\ SubSeq(t, i, i + Len(s) - 1) = s

\* The sentinels of the encoding that are allowed.
allowed_matches(bpe, allowed) == allowed \cap DOMAIN bpe.special_tokens_encoder

\* The first index from `from` on at which an allowed sentinel of the
\* encoding occurs, 0 when there is none.
next_special(bpe, t, from, allowed) ==
    LET hits == {i \in from..Len(t) :
                    \E s \in allowed_matches(bpe, allowed) : occurs_at(t, i, s)}
    IN  IF hits = {} THEN 0 ELSE CHOOSE i \in hits : \A j \in hits : i <= j

\* CoreBPE::encode
RECURSIVE encode_from(_, _, _, _)
encode_from(bpe, t, start, allowed) ==
    LET m == next_special(bpe, t, start, allowed)
    IN  IF m = 0 THEN encode_ordinary(bpe, SubSeq(t, start, Len(t)))
        ELSE LET s == CHOOSE s \in allowed_matches(bpe, allowed) : occurs_at(t, m, s)
             IN  encode_ordinary(bpe, SubSeq(t, start, m - 1))
                 \o <<bpe.special_tokens_encoder[s]>>
                 \o encode_from(bpe, t, m + Len(s), allowed)

encode(bpe, t, allowed) == encode_from(bpe, t, 1, allowed)

\* CoreBPE::encode_with_special_tokens
encode_with_special_tokens(bpe, t) ==
    encode(bpe, t, DOMAIN bpe.special_tokens_encoder)

\* The bytes of one id: a key of the rank table or of the special token table.
token_known(bpe, id) ==
    \/ id \in 0..(Len(bpe.decoder) - 1)
    \/ \E s \in DOMAIN bpe.special_tokens_encoder : bpe.special_tokens_encoder[s] = id

token_bytes(bpe, id) ==
    IF id \in 0..(Len(bpe.decoder) - 1) THEN bpe.decoder[id + 1]
    ELSE CHOOSE s \in DOMAIN bpe.special_tokens_encoder :
             bpe.special_tokens_encoder[s] = id

RECURSIVE decode_bytes(_, _, _)
decode_bytes(bpe, tokens, i) ==
    IF i > Len(tokens) THEN <<>>
    ELSE token_bytes(bpe, tokens[i]) \o decode_bytes(bpe, tokens, i + 1)

\* a decode that leaves out the ids it does not know
decode_skipping_unknown(bpe, tokens) ==
    [ok |-> TRUE,
     bytes |-> decode_bytes(
                   bpe, SelectSeq(tokens, LAMBDA id : token_known(bpe, id)), 1)]

\* CoreBPE::decode: the bytes of the ids in order, an error on an unknown id.
decode(bpe, tokens) ==
    IF \A i \in 1..Len(tokens) : token_known(bpe, tokens[i])
    THEN [ok |-> TRUE, bytes |-> decode_bytes(bpe, tokens, 1)]
    ELSE [ok |-> FALSE, bytes |-> <<>>]

----------------------------------------------------------------------------
(* The entry points of tokenizer.rs.  A call returns an outcome: the       *)
(* Result it hands back and whether it ran the vocabulary constructor.     *)

NoError == [type |-> "none", token |-> "none", tokenizer |-> "none"]

Ok(tokens) == [ok |-> TRUE, tokens |-> tokens, err |-> NoError]

Err(token, name) ==
    [ok |-> FALSE, tokens |-> <<>>,
     err |-> [type |-> "Tokenizer", token |-> token, tokenizer |-> name]]

load_bpe_wrong_arm(t) ==
    LET bpe == CASE t = "R50KBase" -> cl100k_base
                 [] t = "P50KBase" -> p50k_base
                 [] t = "P50KEdit" -> p50k_edit
                 [] t = "CL100KBase" -> r50k_base
    IN  IF bpe.ok THEN [ok |-> TRUE, bpe |-> bpe.bpe, err |-> NoError]
        ELSE [ok |-> FALSE, bpe |-> bpe.bpe,
              err |-> Err("none", Tokenizer_to_str(t)).err]

\* a load that gives R50KBase the vocabulary of the edit models
load_bpe_edit_arm(t) ==
    LET bpe == CASE t = "R50KBase" -> p50k_edit
                 [] t = "P50KBase" -> p50k_base
                 [] t = "P50KEdit" -> p50k_edit
                 [] t = "CL100KBase" -> cl100k_base
    IN  IF bpe.ok THEN [ok |-> TRUE, bpe |-> bpe.bpe, err |-> NoError]
        ELSE [ok |-> FALSE, bpe |-> bpe.bpe,
              err |-> Err("none", Tokenizer_to_str(t)).err]

load_bpe(t) ==
    LET bpe == CASE t = "R50KBase" -> r50k_base
                 [] t = "P50KBase" -> p50k_base
                 [] t = "P50KEdit" -> p50k_edit
                 [] t = "CL100KBase" -> cl100k_base
    IN  IF bpe.ok THEN [ok |-> TRUE, bpe |-> bpe.bpe, err |-> NoError]
        ELSE [ok |-> FALSE, bpe |-> bpe.bpe,
              err |-> Err("none", Tokenizer_to_str(t)).err]

\* a tokenize that appends to the tokens the last call returned
tokenize_accumulating(txt, t) ==
    LET l == load_bpe(t)
    IN  [result |-> IF l.ok
                    THEN Ok(result.tokens \o encode_ordinary(l.bpe, txt))
                    ELSE [ok |-> FALSE, tokens |-> <<>>, err |-> l.err],
         loaded |-> TRUE]

tokenize(txt, t) ==
    LET l == load_bpe(t)
    IN  [result |-> IF l.ok THEN Ok(encode_ordinary(l.bpe, txt))
                    ELSE [ok |-> FALSE, tokens |-> <<>>, err |-> l.err],
         loaded |-> TRUE]

\* The tokens of allowed that the loop over allowed_special.iter() can meet
\* first among those the tokenizer does not recognize (a HashSet iterates in
\* no fixed order).
tokenize_custom_rejects_unlisted(t, allowed) ==
    {token \in recognized_special(t) : ~SpecialTokens_contains(allowed, token)}

tokenize_custom_rejects(t, allowed) ==
    LET recognized == recognized_special(t)
    IN  {token \in allowed : ~SpecialTokens_contains(recognized, token)}

\* tokenize_custom with the vocabulary loaded before the check
tokenize_custom_load_first(txt, t, allowed) ==
    LET rejects == tokenize_custom_rejects(t, allowed)
    IN  IF rejects # {}
        THEN {[result |-> Err(token, Tokenizer_to_str(t)), loaded |-> TRUE] :
                 token \in rejects}
        ELSE LET l == load_bpe(t)
             IN  {[result |-> IF l.ok
                              THEN Ok(encode(l.bpe, txt, SpecialTokens_to_str_set(allowed)))
                              ELSE [ok |-> FALSE, tokens |-> <<>>, err |-> l.err],
                   loaded |-> TRUE]}

\* tokenize_custom passing no special token on to encode
tokenize_custom_none_allowed(txt, t, allowed) ==
    LET rejects == tokenize_custom_rejects(t, allowed)
    IN  IF rejects # {}
        THEN {[result |-> Err(token, Tokenizer_to_str(t)), loaded |-> FALSE] :
                 token \in rejects}
        ELSE LET l == load_bpe(t)
             IN  {[result |-> IF l.ok
                              THEN Ok(encode(l.bpe, txt, {}))
                              ELSE [ok |-> FALSE, tokens |-> <<>>, err |-> l.err],
                   loaded |-> TRUE]}

\* tokenize_custom passing the recognized special tokens on to encode
tokenize_custom_all_recognized(txt, t, allowed) ==
    LET rejects == tokenize_custom_rejects(t, allowed)
    IN  IF rejects # {}
        THEN {[result |-> Err(token, Tokenizer_to_str(t)), loaded |-> FALSE] :
                 token \in rejects}
        ELSE LET l == load_bpe(t)
             IN  {[result |-> IF l.ok
                              THEN Ok(encode(l.bpe, txt,
                                       SpecialTokens_to_str_set(recognized_special(t))))
                              ELSE [ok |-> FALSE, tokens |-> <<>>, err |-> l.err],
                   loaded |-> TRUE]}

\* The outcomes of tokenize_custom: one per token the check can reject, or
\* the one of encode.
tokenize_custom(txt, t, allowed) ==
    LET rejects == tokenize_custom_rejects(t, allowed)
    IN  IF rejects # {}
        THEN {[result |-> Err(token, Tokenizer_to_str(t)), loaded |-> FALSE] :
                 token \in rejects}
        ELSE LET l == load_bpe(t)
             IN  {[result |-> IF l.ok
                              THEN Ok(encode(l.bpe, txt, SpecialTokens_to_str_set(allowed)))
                              ELSE [ok |-> FALSE, tokens |-> <<>>, err |-> l.err],
                   loaded |-> TRUE]}

\* a tokenize_with_special that ends every output with the id of EndOfText
tokenize_with_special_appending_eot(txt, t) ==
    LET l == load_bpe(t)
    IN  [result |-> IF l.ok
                    THEN Ok(Append(encode_with_special_tokens(l.bpe, txt),
                                   l.bpe.special_tokens_encoder[
                                       SpecialToken_to_str("EndOfText")]))
                    ELSE [ok |-> FALSE, tokens |-> <<>>, err |-> l.err],
         loaded |-> TRUE]

tokenize_with_special(txt, t) ==
    LET l == load_bpe(t)
    IN  [result |-> IF l.ok THEN Ok(encode_with_special_tokens(l.bpe, txt))
                    ELSE [ok |-> FALSE, tokens |-> <<>>, err |-> l.err],
         loaded |-> TRUE]

----------------------------------------------------------------------------
(* The inputs of the model.                                                *)

\* The sentinels that occur in the texts: one every encoding recognizes, one
\* two encodings recognize, one a single encoding recognizes.
TextSentinels == {"EndOfText", "FimPrefix", "EndOfPrompt"}

\* "a", " ", and the sentinel strings
TextPieces ==
    {<<97>>, <<32>>} \cup {SpecialToken_to_str(s) : s \in TextSentinels}

RECURSIVE TextsUpTo(_)
TextsUpTo(n) ==
    IF n = 0 THEN {<<>>}
    ELSE LET shorter == TextsUpTo(n - 1)
         IN  shorter \cup {t \o p : t \in shorter, p \in TextPieces}

Texts == TextsUpTo(MaxPieces)

NoResult == [ok |-> FALSE, tokens |-> <<>>, err |-> NoError]

MergeIdle ==
    /\ chunk = <<>>
    /\ parts = <<>>
    /\ merged_at = 0
    /\ done = FALSE

SingIdle ==
    /\ cell = <<>>
    /\ pc = <<>>
    /\ target = <<>>
    /\ handle = <<>>
    /\ waited = <<>>
    /\ constructed = <<>>
    /\ returned = <<>>
    /\ holders = {}

\* no parser call has been made
NoCall ==
    [fn |-> "none", kind |-> "none", out |-> <<>>, input |-> <<>>,
     retry |-> FALSE]

StreamIdle ==
    /\ pending = <<>>
    /\ slice = <<>>
    /\ last = NoCall
    /\ prev = NoCall
    /\ retried = FALSE
    /\ obj = <<>>
    /\ done_found = FALSE
    /\ parsed_after_done = FALSE
    /\ received = <<>>
    /\ objects = <<>>

\* Option<&str>
None == [some |-> FALSE, name |-> ""]
Some(name) == [some |-> TRUE, name |-> name]

ModelsIdle ==
    /\ model_name = <<>>
    /\ encoding = None
    /\ resolved = FALSE

\* what decode returns on an unknown id
UnknownTokenId == [ok |-> FALSE, bytes |-> <<>>]

DecodeIdle ==
    /\ ids = <<>>
    /\ decoded = UnknownTokenId
    /\ called = "none"
    /\ failed = FALSE

\* no setter has been called
NoSetter ==
    [fn |-> "none", had_suffix |-> FALSE, had_echo |-> FALSE, had_prompts |-> 0]

\* Option<Vec<String>>
NoPrompt == [some |-> FALSE, vec |-> <<>>]
SomePrompt(v) == [some |-> TRUE, vec |-> v]

\* CompletionBuilder::create: the fields of Default::default()
BuilderIdle ==
    /\ prompt = NoPrompt
    /\ suffix = None
    /\ echo = FALSE
    /\ panicked = FALSE
    /\ setter = NoSetter

\* Messages::default()
MessagesIdle ==
    /\ data = <<>>
    /\ msg_tokens = <<>>
    /\ save_with_tokens = FALSE
    /\ method = "none"

----------------------------------------------------------------------------
(* Calls of the entry points on one text, tokenizer and allowed set.       *)

\* The arguments of the calls: a text of the model with the allowed sets
\* over the sentinels that occur in texts, or a text of at most one piece
\* with every allowed set.
TokInit ==
    /\ \/ text \in Texts /\ allowed_special \in SUBSET TextSentinels
       \/ text \in TextsUpTo(1) /\ allowed_special \in SUBSET SpecialToken
    /\ tokenizer \in Tokenizer
    /\ op = "none"
    /\ result = NoResult
    /\ loads = [t \in Tokenizer |-> 0]
    /\ MergeIdle
    /\ SingIdle
    /\ StreamIdle
    /\ ModelsIdle
    /\ DecodeIdle
    /\ BuilderIdle
    /\ MessagesIdle

\* the outcome of a call: its result, and one more load if the constructor ran
Returns(name, outcome) ==
    /\ op' = name
    /\ result' = outcome.result
    /\ loads' = IF outcome.loaded
                THEN [loads EXCEPT ![tokenizer] = @ + 1]
                ELSE loads
    /\ UNCHANGED <<text, tokenizer, allowed_special, notTokVars>>

Tokenize ==
    /\ loads[tokenizer] < MaxLoads
    /\ Returns("tokenize", tokenize(text, tokenizer))

TokenizeCustom ==
    /\ loads[tokenizer] < MaxLoads
    /\ \E outcome \in tokenize_custom(text, tokenizer, allowed_special) :
           Returns("tokenize_custom", outcome)

TokenizeWithSpecial ==
    /\ loads[tokenizer] < MaxLoads
    /\ Returns("tokenize_with_special", tokenize_with_special(text, tokenizer))

TokNext == Tokenize \/ TokenizeCustom \/ TokenizeWithSpecial

Spec == TokInit /\ [][TokNext]_vars

----------------------------------------------------------------------------
(* Properties of the entry points.                                         *)

\* the encoding that belongs to the tokenizer of the call
CallEncoding == encoding_named(Tokenizer_to_str(tokenizer))

\* no special-token sentinel is a substring of t
NoSentinelIn(t) ==
    \A s \in SpecialToken : \A i \in 1..Len(t) :
        ~occurs_at(t, i, SpecialToken_to_str(s))

\* the ids of the rank table of an encoding
BaseIds(bpe) == 0..(Len(bpe.decoder) - 1)

\* C1: round trip: for a text without a sentinel, decoding (with the encoding
\* of the tokenizer) the tokens that tokenize returned gives the bytes of
\* the text.
C1_RoundTrip ==
    (op = "tokenize" /\ NoSentinelIn(text)) =>
        /\ result.ok
        /\ decode(CallEncoding, result.tokens) = [ok |-> TRUE, bytes |-> text]

\* tokenize returned for a sentinel-free text in which a pair was merged
C1_Witness ==
    /\ op = "tokenize"
    /\ NoSentinelIn(text)
    /\ result.ok
    /\ Len(result.tokens) >= 1
    /\ Len(result.tokens) < Len(text)

\* C3: when tokenize_custom returns tokens for a text before + SENTINEL +
\* after with SENTINEL allowed, one token of the output stands for that
\* occurrence and is the reserved id of the sentinel (the tokens before it
\* decode to before, those after it to after), and the output differs from
\* that of tokenize for the same text; the output of tokenize holds ids of
\* the rank table only.
C3_AllowedSentinelIsOneSpecialId ==
    /\ (op = "tokenize_custom" /\ result.ok) =>
           \A s \in allowed_special : \A i \in 1..Len(text) :
               occurs_at(text, i, SpecialToken_to_str(s)) =>
                   /\ \E k \in 1..Len(result.tokens) :
                          /\ result.tokens[k] =
                                 CallEncoding.special_tokens_encoder[SpecialToken_to_str(s)]
                          /\ decode(CallEncoding, SubSeq(result.tokens, 1, k - 1)).bytes
                                 = SubSeq(text, 1, i - 1)
                          /\ decode(CallEncoding,
                                    SubSeq(result.tokens, k + 1, Len(result.tokens))).bytes
                                 = SubSeq(text, i + Len(SpecialToken_to_str(s)), Len(text))
                   /\ result.tokens # tokenize(text, tokenizer).result.tokens
    /\ (op = "tokenize" /\ result.ok) =>
           \A j \in 1..Len(result.tokens) : result.tokens[j] \in BaseIds(CallEncoding)

\* tokenize_custom returned tokens for a text with bytes before and after an
\* allowed sentinel
C3_Witness ==
    /\ op = "tokenize_custom"
    /\ result.ok
    /\ \E s \in allowed_special : \E i \in 2..Len(text) :
           /\ occurs_at(text, i, SpecialToken_to_str(s))
           /\ i + Len(SpecialToken_to_str(s)) <= Len(text)

\* C4: tokenize_custom gives no reserved id to a sentinel outside
\* allowed_special, and with the empty allowed_special it returns what
\* tokenize returns.
C4_UnlistedSentinelIsOrdinary ==
    (op = "tokenize_custom" /\ result.ok) =>
        /\ \A s \in DOMAIN CallEncoding.special_tokens_encoder :
               s \notin SpecialTokens_to_str_set(allowed_special) =>
                   \A j \in 1..Len(result.tokens) :
                       result.tokens[j] # CallEncoding.special_tokens_encoder[s]
        /\ allowed_special = {} => result = tokenize(text, tokenizer).result

\* tokenize_custom returned, with nothing allowed, for a text that holds a
\* sentinel the encoding recognizes
C4_Witness ==
    /\ op = "tokenize_custom"
    /\ result.ok
    /\ allowed_special = {}
    /\ \E s \in DOMAIN CallEncoding.special_tokens_encoder :
           \E i \in 1..Len(text) : occurs_at(text, i, s)

\* C5: tokenize_custom fails its check exactly when allowed_special holds a
\* token outside recognized_special() of the tokenizer, and the error names
\* such a token and the tokenizer.
C5_ValidationFailsIffUnrecognized ==
    op = "tokenize_custom" =>
        /\ ~result.ok <=> (\E s \in allowed_special : s \notin recognized_special(tokenizer))
        /\ ~result.ok =>
               /\ result.err.token \in allowed_special \ recognized_special(tokenizer)
               /\ result.err.tokenizer = Tokenizer_to_str(tokenizer)

\* tokenize_custom failed on a set that also holds a recognized token
C5_Witness ==
    /\ op = "tokenize_custom"
    /\ ~result.ok
    /\ allowed_special \cap recognized_special(tokenizer) # {}

\* C6: a call of tokenize_custom that returns the error of the check runs
\* no vocabulary constructor and returns no token.
C6_FailFast ==
    [][(op' = "tokenize_custom" /\ ~result'.ok) =>
           (loads' = loads /\ result'.tokens = <<>>)]_vars

\* tokenize_custom failed and no vocabulary was ever loaded
C6_Witness ==
    /\ op = "tokenize_custom"
    /\ ~result.ok
    /\ \A t \in Tokenizer : loads[t] = 0

\* C9: the vocabulary of each encoding is loaded at most once.
C9_LoadedAtMostOnce == \A t \in Tokenizer : loads[t] <= 1

----------------------------------------------------------------------------
(* The merge loop of encode_ordinary on one chunk, one merge per step.     *)

\* the bytes of the chunks: "a", "b", " "
ChunkBytes == {97, 98, 32}

RECURSIVE ChunksUpTo(_)
ChunksUpTo(n) ==
    IF n = 0 THEN {<<>>}
    ELSE LET shorter == ChunksUpTo(n - 1)
         IN  shorter \cup {c \o <<b>> : c \in shorter, b \in ChunkBytes}

Chunks == ChunksUpTo(MaxChunkLen) \ {<<>>}

TokIdle ==
    /\ text = <<>>
    /\ allowed_special = {}
    /\ op = "none"
    /\ result = NoResult
    /\ loads = [t \in Tokenizer |-> 0]

MergeInit ==
    /\ tokenizer \in Tokenizer
    /\ chunk \in Chunks
    /\ parts = [i \in 1..Len(chunk) |-> <<chunk[i]>>]
    /\ merged_at = 0
    /\ done = FALSE
    /\ TokIdle
    /\ SingIdle
    /\ StreamIdle
    /\ ModelsIdle
    /\ DecodeIdle
    /\ BuilderIdle
    /\ MessagesIdle

\* the rank table the loop runs on
MergeEncoder == load_bpe(tokenizer).bpe.encoder

MergeStep ==
    /\ ~done
    /\ merge_index(MergeEncoder, parts) # 0
    /\ merged_at' = merge_index(MergeEncoder, parts)
    /\ parts' = merge_at(parts, merged_at')
    /\ UNCHANGED <<chunk, done, notMergeVars>>

MergeDone ==
    /\ ~done
    /\ merge_index(MergeEncoder, parts) = 0
    /\ done' = TRUE
    /\ merged_at' = 0
    /\ UNCHANGED <<chunk, parts, notMergeVars>>

MergeNext == MergeStep \/ MergeDone

SpecMerge == MergeInit /\ [][MergeNext]_vars

\* the rank of the pair of parts at index j
PairRank(j) == rank_of(MergeEncoder, parts[j] \o parts[j + 1])

\* C2: every merge step merges an adjacent pair whose rank is the lowest of
\* all adjacent pairs and lower than that of every pair to its left (the
\* leftmost pair of the lowest rank), and the loop ends with the tokens
\* tokenize returns for the chunk.
C2_LowestRankLeftmostFirst ==
    /\ [][merged_at' # 0 =>
             /\ merged_at' \in 1..(Len(parts) - 1)
             /\ PairRank(merged_at') # NoRank
             /\ \A j \in 1..(Len(parts) - 1) :
                    PairRank(j) # NoRank =>
                        /\ PairRank(merged_at') <= PairRank(j)
                        /\ j < merged_at' => PairRank(merged_at') < PairRank(j)
             /\ parts' = merge_at(parts, merged_at')]_vars
    /\ []((done /\ split(chunk) = <<chunk>>) =>
             [i \in 1..Len(parts) |-> rank_of(MergeEncoder, parts[i])]
                 = tokenize(chunk, tokenizer).result.tokens)

\* the pair at index 2 was merged first although the pair at index 1 is in
\* the rank table
C2_Witness ==
    /\ Len(chunk) = 3
    /\ merged_at = 2
    /\ Len(parts) = 2
    /\ rank_of(MergeEncoder, <<chunk[1], chunk[2]>>) # NoRank

\* of two pairs of the lowest rank the left one was merged
C2_WitnessTie ==
    /\ chunk = <<97, 97, 97>>
    /\ merged_at = 1
    /\ Len(parts) = 2

\* the loop runs: a step that can be taken is taken
FairSpecMerge == SpecMerge /\ WF_vars(MergeNext)

\* C25: the merge loop terminates, each merge making the parts one fewer,
\* and when it has ended no two adjacent parts have a concatenation that is
\* a key of the rank table.
C25_MergeLoopTerminates ==
    /\ [][merged_at' # 0 => Len(parts') = Len(parts) - 1]_vars
    /\ [](done => \A j \in 1..(Len(parts) - 1) : PairRank(j) = NoRank)
    /\ <>done

\* the loop has ended after a merge with more than one part left
C25_Witness ==
    /\ done
    /\ Len(parts) >= 2
    /\ Len(parts) < Len(chunk)

----------------------------------------------------------------------------
(* The singleton accessors of singletons.rs, called by NumCallers callers  *)
(* that run in parallel.  Each accessor holds a static                     *)
(* OnceCell<Arc<Mutex<CoreBPE>>>; get_or_init runs its closure (the        *)
(* vocabulary constructor) in the caller that finds the cell empty, blocks *)
(* the callers that arrive while it runs, and hands every caller a clone   *)
(* of the Arc in the cell.  A caller reaches the CoreBPE through the Mutex.*)

Callers == 1..NumCallers

\* r50k_base_singleton, p50k_base_singleton, p50k_edit_singleton and
\* cl100k_base_singleton, by the name of their encoding
Singletons == {Tokenizer_to_str(t) : t \in Tokenizer}

NoInstance == [name |-> "none", serial |-> 0]

EmptyCell == [state |-> "uninit", value |-> NoInstance]

\* a get_or_init that runs the closure whenever the cell holds no value yet
get_or_init_runs_closure_unsynchronized(state) == state # "done"

\* get_or_init runs the closure of the caller that finds the cell
\* uninitialized; the cell is then marked as running
get_or_init_runs_closure(state) == state = "uninit"

\* a lock that is granted whoever holds it
mutex_lock_granted_always(instance, held) == TRUE

\* Mutex::lock is granted when no caller holds the mutex of the instance
mutex_lock_granted(instance, held) == \A h \in held : h[1] # instance

SingInit ==
    /\ cell = [n \in Singletons |-> EmptyCell]
    /\ pc = [c \in Callers |-> "idle"]
    /\ target = [c \in Callers |-> "none"]
    /\ handle = [c \in Callers |-> NoInstance]
    /\ waited = [c \in Callers |-> FALSE]
    /\ constructed = [n \in Singletons |-> 0]
    /\ returned = [n \in Singletons |-> {}]
    /\ holders = {}
    /\ tokenizer = "CL100KBase"
    /\ TokIdle
    /\ MergeIdle
    /\ StreamIdle
    /\ ModelsIdle
    /\ DecodeIdle
    /\ BuilderIdle
    /\ MessagesIdle

\* caller c leaves get_or_init with a clone of the Arc in the cell of n
Hands(c, n, instance) ==
    /\ handle' = [handle EXCEPT ![c] = instance]
    /\ returned' = [returned EXCEPT ![n] = @ \cup {instance}]
    /\ pc' = [pc EXCEPT ![c] = "have"]

\* The cell is initialized: get_or_init returns at once.
GetInitialized(c, n) ==
    /\ pc[c] = "idle"
    /\ cell[n].state = "done"
    /\ target' = [target EXCEPT ![c] = n]
    /\ Hands(c, n, cell[n].value)
    /\ UNCHANGED <<cell, waited, constructed, holders, notSingVars>>

\* The caller finds the cell empty and starts to run the closure.
StartInit(c, n) ==
    /\ pc[c] = "idle"
    /\ get_or_init_runs_closure(cell[n].state)
    /\ cell' = [cell EXCEPT ![n].state = "running"]
    /\ target' = [target EXCEPT ![c] = n]
    /\ pc' = [pc EXCEPT ![c] = "init"]
    /\ UNCHANGED <<handle, waited, constructed, returned, holders, notSingVars>>

\* The closure ends: the constructor has run, the cell holds the new
\* Arc<Mutex<CoreBPE>>, and the caller gets its clone.
FinishInit(c) ==
    /\ pc[c] = "init"
    /\ LET n == target[c]
           instance == [name |-> n, serial |-> constructed[n] + 1]
       IN  /\ constructed' = [constructed EXCEPT ![n] = @ + 1]
           /\ cell' = [cell EXCEPT ![n] = [state |-> "done", value |-> instance]]
           /\ Hands(c, n, instance)
    /\ UNCHANGED <<target, waited, holders, notSingVars>>

\* The caller arrives while another caller runs the closure: it blocks.
Block(c, n) ==
    /\ pc[c] = "idle"
    /\ cell[n].state = "running"
    /\ ~get_or_init_runs_closure(cell[n].state)
    /\ target' = [target EXCEPT ![c] = n]
    /\ waited' = [waited EXCEPT ![c] = TRUE]
    /\ pc' = [pc EXCEPT ![c] = "blocked"]
    /\ UNCHANGED <<cell, handle, constructed, returned, holders, notSingVars>>

\* A blocked caller is released once the cell is initialized.
Wake(c) ==
    /\ pc[c] = "blocked"
    /\ cell[target[c]].state = "done"
    /\ Hands(c, target[c], cell[target[c]].value)
    /\ UNCHANGED <<cell, target, waited, constructed, holders, notSingVars>>

\* The caller locks the Mutex of its instance and starts to encode.
Lock(c) ==
    /\ pc[c] = "have"
    /\ mutex_lock_granted(handle[c], holders)
    /\ holders' = holders \cup {<<handle[c], c>>}
    /\ pc' = [pc EXCEPT ![c] = "encoding"]
    /\ UNCHANGED <<cell, target, handle, waited, constructed, returned, notSingVars>>

\* The encode is over: the guard and the Arc are dropped.
Unlock(c) ==
    /\ pc[c] = "encoding"
    /\ holders' = holders \ {<<handle[c], c>>}
    /\ handle' = [handle EXCEPT ![c] = NoInstance]
    /\ target' = [target EXCEPT ![c] = "none"]
    /\ waited' = [waited EXCEPT ![c] = FALSE]
    /\ pc' = [pc EXCEPT ![c] = "idle"]
    /\ UNCHANGED <<cell, constructed, returned, notSingVars>>

SingNext ==
    \E c \in Callers :
        \/ \E n \in Singletons : GetInitialized(c, n)
        \/ \E n \in Singletons : StartInit(c, n)
        \/ \E n \in Singletons : Block(c, n)
        \/ FinishInit(c)
        \/ Wake(c)
        \/ Lock(c)
        \/ Unlock(c)

SpecSingleton == SingInit /\ [][SingNext]_vars

\* The constructor terminates, and a released caller runs on.
SingFairness ==
    \A c \in Callers : WF_vars(FinishInit(c)) /\ WF_vars(Wake(c))

FairSpecSingleton == SpecSingleton /\ SingFairness

----------------------------------------------------------------------------
(* Properties of the singleton accessors.                                  *)

\* C7: whatever the interleaving of the callers, the vocabulary constructor
\* of each singleton accessor runs at most once.
C7_ConstructedAtMostOnce == \A n \in Singletons : constructed[n] <= 1

\* two callers made their first access to one accessor at the same time:
\* one ran the constructor, the other blocked, and both hold the instance
C7_Witness ==
    \E c, d \in Callers :
        /\ c # d
        /\ pc[c] = "have" /\ pc[d] = "have"
        /\ target[c] = target[d]
        /\ waited[d] /\ ~waited[c]
        /\ constructed[target[c]] = 1

\* C8: a caller that blocks in an accessor while the constructor runs
\* returns in the end, and all calls of one accessor return the same
\* instance.
C8_WaitersReturnSameInstance ==
    /\ \A c \in Callers : (pc[c] = "blocked") ~> (pc[c] = "have")
    /\ [](\A n \in Singletons : Cardinality(returned[n]) <= 1)
    /\ [](\A c \in Callers :
              pc[c] \in {"have", "encoding"} =>
                  handle[c] = cell[target[c]].value /\ handle[c] # NoInstance)

\* a caller that had blocked holds the instance another caller is using
C8_Witness ==
    \E c, d \in Callers :
        /\ c # d
        /\ waited[c]
        /\ pc[c] = "have"
        /\ pc[d] = "encoding"
        /\ handle[c] = handle[d]
        /\ handle[c] # NoInstance

\* C10: a caller that holds a handle starts its encode without waiting for
\* the encode of another caller (no lock stands between the callers and the
\* shared encoding).
C10_NoCallerWaitsForAnother ==
    \A c \in Callers :
        pc[c] = "have" => \A h \in holders : h[1] # handle[c]

\* C10, amended: the cell of an accessor, once initialized, keeps its
\* instance for good, and the callers reach the shared encoding through its
\* Mutex only: at most one caller at a time encodes with an instance.
C10_ImmutableAndSerialized ==
    /\ [][\A n \in Singletons : cell[n].state = "done" => cell'[n] = cell[n]]_vars
    /\ [](\A c, d \in Callers :
              (c # d /\ pc[c] = "encoding" /\ pc[d] = "encoding") =>
                  handle[c] # handle[d])
    /\ [](\A c \in Callers : pc[c] = "encoding" <=> <<handle[c], c>> \in holders)

\* one caller encodes with the shared instance while another, holding the
\* same instance, waits for the mutex
C10_Witness ==
    \E c, d \in Callers :
        /\ c # d
        /\ pc[c] = "encoding"
        /\ pc[d] = "have"
        /\ handle[c] = handle[d]

----------------------------------------------------------------------------
(* The stream parsers of src/src/utils/stream_parsers.rs over buffers of   *)
(* bytes, and the two nom combinators they are built from.                 *)

\* IResult: Ok((rest, out)), Err(Incomplete) or Err(Error)
ParseOk(rest, out) == [kind |-> "ok", rest |-> rest, out |-> out]
ParseIncomplete == [kind |-> "incomplete", rest |-> <<>>, out |-> <<>>]
ParseError == [kind |-> "error", rest |-> <<>>, out |-> <<>>]

\* the first index at which t occurs in input, 0 when it does not occur
find_substring(input, t) ==
    LET hits == {i \in 1..(Len(input) - Len(t) + 1) :
                     SubSeq(input, i, i + Len(t) - 1) = t}
    IN  IF hits = {} THEN 0
        ELSE CHOOSE i \in hits : \A k \in hits : i <= k

\* nom::bytes::streaming::take_until: the bytes before the first occurrence
\* of t, and Incomplete while t does not occur
take_until(t, input) ==
    LET i == find_substring(input, t)
    IN  IF i = 0 THEN ParseIncomplete
        ELSE ParseOk(SubSeq(input, i, Len(input)), SubSeq(input, 1, i - 1))

\* nom::bytes::streaming::tag: t itself when the input starts with it,
\* Incomplete when the input is a proper prefix of t, an error otherwise
tag(t, input) ==
    IF Len(input) >= Len(t)
    THEN IF SubSeq(input, 1, Len(t)) = t
         THEN ParseOk(SubSeq(input, Len(t) + 1, Len(input)), t)
         ELSE ParseError
    ELSE IF input = SubSeq(t, 1, Len(input))
         THEN ParseIncomplete
         ELSE ParseError

\* "{"
LBRACE == <<123>>
\* "\n"
NEWLINE == <<10>>
\* "[DONE]"
DONE == <<91, 68, 79, 78, 69, 93>>
\* "content"
CONTENT == <<99, 111, 110, 116, 101, 110, 116>>
\* "content\":\""
CONTENT_START == <<99, 111, 110, 116, 101, 110, 116, 34, 58, 34>>
\* "\"}"
QUOTE_RBRACE == <<34, 125>>

nom_content_value(input) ==
    LET found == take_until(CONTENT, input)
    IN  IF found.kind # "ok" THEN found
        ELSE LET content_start == tag(CONTENT_START, found.rest)
             IN  IF content_start.kind # "ok" THEN content_start
                 ELSE take_until(QUOTE_RBRACE, content_start.rest)

\* a parser that forgets to consume the sentinel it has found
nom_til_done_keeps_sentinel(input) == take_until(DONE, input)

\* a parser built on nom::bytes::complete, which fails where the streaming
\* combinator asks for more bytes
nom_til_done_complete(input) ==
    LET found == take_until(DONE, input)
    IN  IF found.kind # "ok" THEN ParseError
        ELSE tag(DONE, found.rest)

nom_til_done(input) ==
    LET found == take_until(DONE, input)
    IN  IF found.kind # "ok" THEN found
        ELSE tag(DONE, found.rest)

nom_is_done(input) == nom_til_done(input).kind = "ok"

\* a parser that starts the object at the last opening brace of its line
nom_chat_completion_chunk_inner(input) ==
    LET obj_start == take_until(LBRACE, input)
    IN  IF obj_start.kind # "ok" THEN obj_start
        ELSE LET line == take_until(NEWLINE, obj_start.rest)
             IN  IF line.kind # "ok" THEN line
                 ELSE LET braces == {i \in 1..Len(line.out) : line.out[i] = 123}
                          i == CHOOSE b \in braces : \A k \in braces : k <= b
                      IN  ParseOk(line.rest, SubSeq(line.out, i, Len(line.out)))

\* a parser that extends the object to the last newline of the bytes it holds
nom_chat_completion_chunk_greedy(input) ==
    LET obj_start == take_until(LBRACE, input)
    IN  IF obj_start.kind # "ok" THEN obj_start
        ELSE LET r == obj_start.rest
                 ends == {j \in 1..Len(r) : r[j] = 10}
             IN  IF ends = {} THEN ParseIncomplete
                 ELSE LET j == CHOOSE e \in ends : \A k \in ends : k <= e
                      IN  ParseOk(SubSeq(r, j, Len(r)), SubSeq(r, 1, j - 1))

\* a parser built on nom::bytes::complete, which fails where the streaming
\* combinator asks for more bytes
nom_chat_completion_chunk_complete(input) ==
    LET obj_start == take_until(LBRACE, input)
    IN  IF obj_start.kind # "ok" THEN ParseError
        ELSE LET line == take_until(NEWLINE, obj_start.rest)
             IN  IF line.kind # "ok" THEN ParseError
                 ELSE ParseOk(line.rest, line.out)

nom_chat_completion_chunk(input) ==
    LET obj_start == take_until(LBRACE, input)
    IN  IF obj_start.kind # "ok" THEN obj_start
        ELSE LET line == take_until(NEWLINE, obj_start.rest)
             IN  IF line.kind # "ok" THEN line
                 ELSE ParseOk(line.rest, line.out)

----------------------------------------------------------------------------
(* A caller that receives a stream byte by byte and calls the parsers on   *)
(* the bytes it holds, as the loops of the tests of stream_parsers.rs do.  *)

\* a stream has at most MaxFrames frames
MaxFrames == 2

\* {"delta":{"content":"H"}}
ContentObject ==
    <<123, 34, 100, 101, 108, 116, 97, 34, 58, 123, 34, 99, 111, 110, 116,
      101, 110, 116, 34, 58, 34, 72, 34, 125, 125>>
\* the value of its content field: H
ContentValue == <<72>>
\* {"delta":{"role":"a"}}
RoleObject ==
    <<123, 34, 100, 101, 108, 116, 97, 34, 58, 123, 34, 114, 111, 108, 101,
      34, 58, 34, 97, 34, 125, 125>>
\* "data: "
DataPrefix == <<100, 97, 116, 97, 58, 32>>

\* an object and the blank line after it, or the sentinel line
Frames ==
    { ContentObject \o NEWLINE \o NEWLINE,
      RoleObject \o NEWLINE \o NEWLINE,
      DataPrefix \o DONE \o NEWLINE \o NEWLINE }

RECURSIVE StreamsUpTo(_)
StreamsUpTo(n) ==
    IF n = 0 THEN {<<>>}
    ELSE LET shorter == StreamsUpTo(n - 1)
         IN  shorter \cup {s \o f : s \in shorter, f \in Frames}

Streams == StreamsUpTo(MaxFrames) \ {<<>>}

StreamInit ==
    /\ pending \in Streams
    /\ slice = <<>>
    /\ last = NoCall
    /\ prev = NoCall
    /\ retried = FALSE
    /\ obj = <<>>
    /\ done_found = FALSE
    /\ parsed_after_done = FALSE
    /\ received = <<>>
    /\ objects = <<>>
    /\ tokenizer = "CL100KBase"
    /\ TokIdle
    /\ MergeIdle
    /\ SingIdle
    /\ ModelsIdle
    /\ DecodeIdle
    /\ BuilderIdle
    /\ MessagesIdle

\* the record of a parser call on input
Called(fn, input, r) ==
    [fn |-> fn, kind |-> r.kind, out |-> r.out, input |-> input,
     retry |-> fn = "chunk" /\ retried]

\* the next byte of the stream arrives and is appended to the held bytes
Arrive ==
    /\ pending # <<>>
    /\ slice' = Append(slice, Head(pending))
    /\ pending' = Tail(pending)
    /\ retried' = (retried \/ (last.fn = "chunk" /\ last.kind = "incomplete"))
    /\ last' = NoCall
    /\ prev' = NoCall
    /\ received' = Append(received, Head(pending))
    /\ UNCHANGED <<obj, done_found, parsed_after_done, objects, notStreamVars>>

\* the caller asks for the next object and continues with the remaining bytes
ChunkCall ==
    LET r == nom_chat_completion_chunk(slice)
    IN  /\ last' = Called("chunk", slice, r)
        /\ prev' = last
        /\ retried' = FALSE
        /\ slice' = IF r.kind = "ok" THEN r.rest ELSE slice
        /\ obj' = IF r.kind = "ok" THEN r.out ELSE obj
        /\ parsed_after_done' = (parsed_after_done \/ (done_found /\ r.kind = "ok"))
        /\ objects' = IF r.kind = "ok" THEN Append(objects, r.out) ELSE objects
        /\ UNCHANGED <<pending, done_found, received, notStreamVars>>

\* the caller extracts the content of the object it has just been given
ContentValueCall ==
    /\ last.fn = "chunk"
    /\ last.kind = "ok"
    /\ last' = Called("content_value", obj, nom_content_value(obj))
    /\ prev' = last
    /\ UNCHANGED <<pending, slice, retried, obj, done_found, parsed_after_done,
                   received, objects, notStreamVars>>

\* the caller looks for the completion sentinel in the bytes it holds
TilDoneCall ==
    LET r == nom_til_done(slice)
    IN  /\ last' = Called("til_done", slice, r)
        /\ prev' = last
        /\ slice' = IF r.kind = "ok" THEN r.rest ELSE slice
        /\ done_found' = (done_found \/ r.kind = "ok")
        /\ UNCHANGED <<pending, retried, obj, parsed_after_done, received, objects,
                       notStreamVars>>

\* the caller asks whether the bytes it holds contain the sentinel
IsDoneCall ==
    /\ last' = [fn |-> "is_done",
                kind |-> IF nom_is_done(slice) THEN "true" ELSE "false",
                out |-> <<>>, input |-> slice, retry |-> FALSE]
    /\ prev' = last
    /\ UNCHANGED <<pending, slice, retried, obj, done_found, parsed_after_done,
                   received, objects, notStreamVars>>

StreamNext ==
    Arrive \/ ChunkCall \/ ContentValueCall \/ TilDoneCall \/ IsDoneCall

SpecStream == StreamInit /\ [][StreamNext]_vars

----------------------------------------------------------------------------
(* Properties of the stream parsers.                                       *)

\* b holds an opening brace and a newline after it
HasCompleteObject(b) ==
    \E i \in 1..Len(b) : b[i] = 123 /\ \E j \in (i + 1)..Len(b) : b[j] = 10

\* the index of the first opening brace of b
FirstBrace(b) ==
    CHOOSE i \in 1..Len(b) : b[i] = 123 /\ \A k \in 1..(i - 1) : b[k] # 123

\* the index of the first newline after the first opening brace of b
ObjectEnd(b) ==
    CHOOSE j \in (FirstBrace(b) + 1)..Len(b) :
        b[j] = 10 /\ \A k \in (FirstBrace(b) + 1)..(j - 1) : b[k] # 10

\* the first object of b: from its first opening brace up to the newline
FirstObject(b) == SubSeq(b, FirstBrace(b), ObjectEnd(b) - 1)

\* what follows the first object of b, from its newline on
AfterFirstObject(b) == SubSeq(b, ObjectEnd(b), Len(b))

\* a is a proper prefix of b
ProperPrefix(a, b) == Len(a) < Len(b) /\ a = SubSeq(b, 1, Len(a))

\* C11: nom_chat_completion_chunk never returns a hard error; on bytes that
\* hold no complete object it returns Incomplete; and a call retried after
\* more bytes arrived returns the first object once the bytes hold one.
C11_IncompleteThenRetry ==
    last.fn = "chunk" =>
        /\ last.kind # "error"
        /\ ~HasCompleteObject(last.input) => last.kind = "incomplete"
        /\ (last.retry /\ HasCompleteObject(last.input)) =>
               /\ last.kind = "ok"
               /\ last.out = FirstObject(last.input)

\* a retried call has returned an object
C11_Witness ==
    /\ last.fn = "chunk"
    /\ last.retry
    /\ last.kind = "ok"
    /\ last.out = ContentObject

\* b holds one complete object and, after it, the beginning of another
OneObjectThenPartial(b) ==
    /\ HasCompleteObject(b)
    /\ \E i \in 1..Len(AfterFirstObject(b)) : AfterFirstObject(b)[i] = 123
    /\ ~HasCompleteObject(AfterFirstObject(b))

\* C12: on bytes that hold one complete newline-terminated object followed by
\* a partial object, nom_chat_completion_chunk returns the complete object
\* and leaves the rest, nom_content_value extracts the content value of the
\* object, and the next nom_chat_completion_chunk call on the rest is
\* Incomplete.
C12_ObjectThenIncomplete ==
    /\ (last.fn = "chunk" /\ OneObjectThenPartial(last.input)) =>
           /\ last.kind = "ok"
           /\ last.out = FirstObject(last.input)
           /\ slice = AfterFirstObject(last.input)
    /\ (/\ last.fn = "content_value"
        /\ prev.fn = "chunk"
        /\ OneObjectThenPartial(prev.input)
        /\ prev.out = ContentObject) =>
           /\ last.kind = "ok"
           /\ last.out = ContentValue
    /\ (/\ last.fn = "chunk"
        /\ prev.fn = "chunk"
        /\ prev.kind = "ok"
        /\ OneObjectThenPartial(prev.input)) =>
           /\ last.input = AfterFirstObject(prev.input)
           /\ last.kind = "incomplete"

\* the call after the one that returned the content object was Incomplete
C12_Witness ==
    /\ last.fn = "chunk"
    /\ last.kind = "incomplete"
    /\ prev.fn = "chunk"
    /\ prev.kind = "ok"
    /\ prev.out = ContentObject
    /\ OneObjectThenPartial(prev.input)

\* the content value was extracted from the object of such a buffer
C12_WitnessContent ==
    /\ last.fn = "content_value"
    /\ last.out = ContentValue
    /\ prev.fn = "chunk"
    /\ OneObjectThenPartial(prev.input)

\* the sentinel occurs in b at index i
DoneAt(b, i) == i + 5 <= Len(b) /\ SubSeq(b, i, i + 5) = DONE

\* the index of the first occurrence of the sentinel in b
FirstDone(b) ==
    CHOOSE i \in 1..Len(b) : DoneAt(b, i) /\ \A k \in 1..(i - 1) : ~DoneAt(b, k)

\* C13 as stated: once nom_til_done has found the sentinel, no later parser
\* call on the stream extracts an object.
C13_TerminalAfterDone == done_found => ~parsed_after_done

\* C13, amended: nom_til_done succeeds exactly when the bytes hold the
\* sentinel, and leaves the caller the bytes after its first occurrence; the
\* parsers keep no state, so a later nom_chat_completion_chunk call extracts
\* an object exactly when those bytes hold a complete one, and is Incomplete
\* otherwise.
C13_DoneLeavesRest ==
    /\ last.fn = "til_done" =>
           /\ last.kind = "ok" <=> (\E i \in 1..Len(last.input) : DoneAt(last.input, i))
           /\ last.kind # "ok" => last.kind = "incomplete"
           /\ last.kind = "ok" =>
                  /\ last.out = DONE
                  /\ slice = SubSeq(last.input, FirstDone(last.input) + 6,
                                    Len(last.input))
    /\ (done_found /\ last.fn = "chunk") =>
           /\ last.kind = "ok" <=> HasCompleteObject(last.input)
           /\ last.kind # "ok" => last.kind = "incomplete"
           /\ last.kind = "ok" => last.out = FirstObject(last.input)

\* an object that followed the sentinel has been extracted
C13_Witness ==
    /\ done_found
    /\ parsed_after_done
    /\ prev.fn = "til_done"
    /\ prev.kind = "ok"
    /\ last.fn = "chunk"
    /\ last.kind = "ok"
    /\ last.out = ContentObject

\* C23: nom_til_done succeeds exactly when its input contains [DONE]; it
\* then returns [DONE] and leaves the bytes after the first occurrence, so
\* that the input is the bytes it dropped, the sentinel and the bytes it
\* left; without [DONE] it is Incomplete, never a hard error; and
\* nom_is_done is true exactly when the input contains [DONE].
C23_TilDone ==
    /\ last.fn = "til_done" =>
           /\ last.kind \in {"ok", "incomplete"}
           /\ last.kind = "ok" <=>
                  \E i \in 1..Len(last.input) : DoneAt(last.input, i)
           /\ last.kind = "ok" =>
                  /\ last.out = DONE
                  /\ last.input =
                         SubSeq(last.input, 1, FirstDone(last.input) - 1)
                             \o DONE \o slice
    /\ last.fn = "is_done" =>
           (last.kind = "true" <=>
                \E i \in 1..Len(last.input) : DoneAt(last.input, i))

\* nom_til_done has dropped the bytes before the sentinel and left bytes
\* after it
C23_Witness ==
    /\ last.fn = "til_done"
    /\ last.kind = "ok"
    /\ FirstDone(last.input) > 1
    /\ Len(slice) > 0

\* nom_is_done has answered true
C23_WitnessIsDone == last.fn = "is_done" /\ last.kind = "true"

\* the complete objects of b, in the order they lie in it
RECURSIVE ObjectsOf(_)
ObjectsOf(b) ==
    IF HasCompleteObject(b)
    THEN <<FirstObject(b)>> \o ObjectsOf(AfterFirstObject(b))
    ELSE <<>>

Appended == {NEWLINE, LBRACE, LBRACE \o NEWLINE, NEWLINE \o LBRACE \o NEWLINE}

\* C28: a successful call of nom_chat_completion_chunk is stable under
\* appended bytes: calling it on the same input followed by any further
\* bytes returns the same object and the same remainder followed by them.
C28_PrefixStable ==
    (last.fn = "chunk" /\ last.kind = "ok") =>
        \A c \in {SubSeq(pending, 1, k) : k \in 0..Len(pending)} \cup Appended :
            nom_chat_completion_chunk(last.input \o c)
                = ParseOk(slice \o c, last.out)

\* an object was returned while the server still had a whole object to send
C28_Witness ==
    /\ last.fn = "chunk"
    /\ last.kind = "ok"
    /\ last.out = ContentObject
    /\ HasCompleteObject(pending)
    /\ nom_chat_completion_chunk(last.input \o pending)
           = ParseOk(slice \o pending, ContentObject)

----------------------------------------------------------------------------
(* The model tables and encoding_for_model of src/src/tokenizers/models.rs.*)
(* Model names are sequences of bytes (ASCII codes).                       *)

\* a prefix table with the further prefix "gpt-" for the open source models
MODEL_PREFIX_TO_ENCODING_overlapping ==
    {
      [model |->
           <<103, 112, 116, 45, 51, 46, 53, 45, 116, 117, 114, 98, 111, 45>>,
       encoding |-> "cl100k_base"],
      [model |->
           <<103, 112, 116, 45, 52, 45>>,
       encoding |-> "cl100k_base"],
      [model |->
           <<103, 112, 116, 45>>,
       encoding |-> "gpt2"]
    }

MODEL_PREFIX_TO_ENCODING ==
    {
      \* "gpt-3.5-turbo-"
      [model |->
           <<103, 112, 116, 45, 51, 46, 53, 45, 116, 117, 114, 98, 111, 45>>,
       encoding |-> "cl100k_base"],
      \* "gpt-4-"
      [model |->
           <<103, 112, 116, 45, 52, 45>>,
       encoding |-> "cl100k_base"]
    }

MODEL_TO_ENCODING ==
    {
      \* "gpt-3.5-turbo-"
      [model |->
           <<103, 112, 116, 45, 51, 46, 53, 45, 116, 117, 114, 98, 111, 45>>,
       encoding |-> "cl100k_base"],
      \* "gpt-4-"
      [model |->
           <<103, 112, 116, 45, 52, 45>>,
       encoding |-> "cl100k_base"],
      \* "text-davinci-003"
      [model |->
           <<116, 101, 120, 116, 45, 100, 97, 118, 105, 110, 99, 105, 45,
             48, 48, 51>>,
       encoding |-> "p50k_base"],
      \* "text-davinci-002"
      [model |->
           <<116, 101, 120, 116, 45, 100, 97, 118, 105, 110, 99, 105, 45,
             48, 48, 50>>,
       encoding |-> "p50k_base"],
      \* "text-davinci-001"
      [model |->
           <<116, 101, 120, 116, 45, 100, 97, 118, 105, 110, 99, 105, 45,
             48, 48, 49>>,
       encoding |-> "r50k_base"],
      \* "text-curie-001"
      [model |->
           <<116, 101, 120, 116, 45, 99, 117, 114, 105, 101, 45, 48, 48,
             49>>,
       encoding |-> "r50k_base"],
      \* "text-babbage-001"
      [model |->
           <<116, 101, 120, 116, 45, 98, 97, 98, 98, 97, 103, 101, 45, 48,
             48, 49>>,
       encoding |-> "r50k_base"],
      \* "text-ada-001"
      [model |->
           <<116, 101, 120, 116, 45, 97, 100, 97, 45, 48, 48, 49>>,
       encoding |-> "r50k_base"],
      \* "davinci"
      [model |->
           <<100, 97, 118, 105, 110, 99, 105>>,
       encoding |-> "r50k_base"],
      \* "curie"
      [model |->
           <<99, 117, 114, 105, 101>>,
       encoding |-> "r50k_base"],
      \* "babbage"
      [model |->
           <<98, 97, 98, 98, 97, 103, 101>>,
       encoding |-> "r50k_base"],
      \* "ada"
      [model |->
           <<97, 100, 97>>,
       encoding |-> "r50k_base"],
      \* "code-davinci-002"
      [model |->
           <<99, 111, 100, 101, 45, 100, 97, 118, 105, 110, 99, 105, 45,
             48, 48, 50>>,
       encoding |-> "p50k_base"],
      \* "code-davinci-001"
      [model |->
           <<99, 111, 100, 101, 45, 100, 97, 118, 105, 110, 99, 105, 45,
             48, 48, 49>>,
       encoding |-> "p50k_base"],
      \* "code-cushman-002"
      [model |->
           <<99, 111, 100, 101, 45, 99, 117, 115, 104, 109, 97, 110, 45,
             48, 48, 50>>,
       encoding |-> "p50k_base"],
      \* "code-cushman-001"
      [model |->
           <<99, 111, 100, 101, 45, 99, 117, 115, 104, 109, 97, 110, 45,
             48, 48, 49>>,
       encoding |-> "p50k_base"],
      \* "davinci-codex"
      [model |->
           <<100, 97, 118, 105, 110, 99, 105, 45, 99, 111, 100, 101, 120>>,
       encoding |-> "p50k_base"],
      \* "cushman-codex"
      [model |->
           <<99, 117, 115, 104, 109, 97, 110, 45, 99, 111, 100, 101, 120>>,
       encoding |-> "p50k_base"],
      \* "text-davinci-edit-001"
      [model |->
           <<116, 101, 120, 116, 45, 100, 97, 118, 105, 110, 99, 105, 45,
             101, 100, 105, 116, 45, 48, 48, 49>>,
       encoding |-> "p50k_edit"],
      \* "code-davinci-edit-001"
      [model |->
           <<99, 111, 100, 101, 45, 100, 97, 118, 105, 110, 99, 105, 45,
             101, 100, 105, 116, 45, 48, 48, 49>>,
       encoding |-> "p50k_edit"],
      \* "text-embedding-ada-002"
      [model |->
           <<116, 101, 120, 116, 45, 101, 109, 98, 101, 100, 100, 105, 110,
             103, 45, 97, 100, 97, 45, 48, 48, 50>>,
       encoding |-> "cl100k_base"],
      \* "text-similarity-davinci-001"
      [model |->
           <<116, 101, 120, 116, 45, 115, 105, 109, 105, 108, 97, 114, 105,
             116, 121, 45, 100, 97, 118, 105, 110, 99, 105, 45, 48, 48, 49>>,
       encoding |-> "r50k_base"],
      \* "text-similarity-curie-001"
      [model |->
           <<116, 101, 120, 116, 45, 115, 105, 109, 105, 108, 97, 114, 105,
             116, 121, 45, 99, 117, 114, 105, 101, 45, 48, 48, 49>>,
       encoding |-> "r50k_base"],
      \* "text-similarity-babbage-001"
      [model |->
           <<116, 101, 120, 116, 45, 115, 105, 109, 105, 108, 97, 114, 105,
             116, 121, 45, 98, 97, 98, 98, 97, 103, 101, 45, 48, 48, 49>>,
       encoding |-> "r50k_base"],
      \* "text-similarity-ada-001"
      [model |->
           <<116, 101, 120, 116, 45, 115, 105, 109, 105, 108, 97, 114, 105,
             116, 121, 45, 97, 100, 97, 45, 48, 48, 49>>,
       encoding |-> "r50k_base"],
      \* "text-search-davinci-doc-001"
      [model |->
           <<116, 101, 120, 116, 45, 115, 101, 97, 114, 99, 104, 45, 100,
             97, 118, 105, 110, 99, 105, 45, 100, 111, 99, 45, 48, 48, 49>>,
       encoding |-> "r50k_base"],
      \* "text-search-curie-doc-001"
      [model |->
           <<116, 101, 120, 116, 45, 115, 101, 97, 114, 99, 104, 45, 99,
             117, 114, 105, 101, 45, 100, 111, 99, 45, 48, 48, 49>>,
       encoding |-> "r50k_base"],
      \* "text-search-babbage-doc-001"
      [model |->
           <<116, 101, 120, 116, 45, 115, 101, 97, 114, 99, 104, 45, 98,
             97, 98, 98, 97, 103, 101, 45, 100, 111, 99, 45, 48, 48, 49>>,
       encoding |-> "r50k_base"],
      \* "text-search-ada-doc-001"
      [model |->
           <<116, 101, 120, 116, 45, 115, 101, 97, 114, 99, 104, 45, 97,
             100, 97, 45, 100, 111, 99, 45, 48, 48, 49>>,
       encoding |-> "r50k_base"],
      \* "code-search-babbage-code-001"
      [model |->
           <<99, 111, 100, 101, 45, 115, 101, 97, 114, 99, 104, 45, 98, 97,
             98, 98, 97, 103, 101, 45, 99, 111, 100, 101, 45, 48, 48, 49>>,
       encoding |-> "r50k_base"],
      \* "code-search-ada-code-001"
      [model |->
           <<99, 111, 100, 101, 45, 115, 101, 97, 114, 99, 104, 45, 97,
             100, 97, 45, 99, 111, 100, 101, 45, 48, 48, 49>>,
       encoding |-> "r50k_base"],
      \* "gpt2"
      [model |->
           <<103, 112, 116, 50>>,
       encoding |-> "gpt2"]
    }

\* str::starts_with
starts_with(s, prefix) ==
    Len(prefix) <= Len(s) /\ SubSeq(s, 1, Len(prefix)) = prefix

\* a lookup that falls back to the open source encoding
encoding_for_model_defaulting(name) ==
    LET exact == {e \in MODEL_TO_ENCODING : e.model = name}
        prefixed == {e \in MODEL_PREFIX_TO_ENCODING : starts_with(name, e.model)}
    IN  IF exact # {} THEN {Some(e.encoding) : e \in exact}
        ELSE IF prefixed # {} THEN {Some(e.encoding) : e \in prefixed}
        ELSE {Some("gpt2")}

\* The entries `find` can return, in whatever order the HashMap iterates:
\* an entry with this very name, else an entry whose key the name starts
\* with, else None.
encoding_for_model(name) ==
    LET exact == {e \in MODEL_TO_ENCODING : e.model = name}
        prefixed == {e \in MODEL_PREFIX_TO_ENCODING : starts_with(name, e.model)}
    IN  IF exact # {} THEN {Some(e.encoding) : e \in exact}
        ELSE IF prefixed # {} THEN {Some(e.encoding) : e \in prefixed}
        ELSE {None}

----------------------------------------------------------------------------
(* Calls of encoding_for_model on the names of the tables, on the names of *)
(* its test, and on these names with a version suffix.                     *)

\* "gpt-3.5-turbo"
GPT_3_5_TURBO ==
    <<103, 112, 116, 45, 51, 46, 53, 45, 116, 117, 114, 98, 111>>
\* "gpt-3.5-turbo-0301"
GPT_3_5_TURBO_0301 ==
    <<103, 112, 116, 45, 51, 46, 53, 45, 116, 117, 114, 98, 111, 45, 48,
      51, 48, 49>>
\* "gpt-4"
GPT_4 == <<103, 112, 116, 45, 52>>
\* "foo"
FOO == <<102, 111, 111>>
\* "text-davinci-003"
TEXT_DAVINCI_003 ==
    <<116, 101, 120, 116, 45, 100, 97, 118, 105, 110, 99, 105, 45, 48, 48,
      51>>
\* "code-search-ada-code-001"
CODE_SEARCH_ADA_CODE_001 ==
    <<99, 111, 100, 101, 45, 115, 101, 97, 114, 99, 104, 45, 97, 100, 97,
      45, 99, 111, 100, 101, 45, 48, 48, 49>>

BaseNames ==
    {e.model : e \in MODEL_TO_ENCODING} \cup {GPT_3_5_TURBO, GPT_4, FOO}

\* "", "-" and "-0301"
Suffixes == {<<>>, <<45>>, <<45, 48, 51, 48, 49>>}

ModelNames == {b \o s : b \in BaseNames, s \in Suffixes}

ModelsInit ==
    /\ model_name \in ModelNames
    /\ encoding = None
    /\ resolved = FALSE
    /\ tokenizer = "CL100KBase"
    /\ TokIdle
    /\ MergeIdle
    /\ SingIdle
    /\ StreamIdle
    /\ DecodeIdle
    /\ BuilderIdle
    /\ MessagesIdle

EncodingForModel ==
    /\ ~resolved
    /\ encoding' \in encoding_for_model(model_name)
    /\ resolved' = TRUE
    /\ UNCHANGED <<model_name, notModelVars>>

ModelsNext == EncodingForModel

SpecModels == ModelsInit /\ [][ModelsNext]_vars

----------------------------------------------------------------------------
(* Properties of encoding_for_model.                                       *)

\* C14 as stated: encoding_for_model returns cl100k_base both for the
\* versioned name "gpt-3.5-turbo-0301" and for its base name "gpt-3.5-turbo".
C14_BaseAndVersionedAlike ==
    (resolved /\ model_name \in {GPT_3_5_TURBO, GPT_3_5_TURBO_0301}) =>
        encoding = Some("cl100k_base")

\* p is a prefix of n, byte by byte
IsPrefixOf(p, n) == Len(p) <= Len(n) /\ \A i \in 1..Len(p) : n[i] = p[i]

C15_WitnessKey ==
    /\ resolved
    /\ model_name = TEXT_DAVINCI_003
    /\ encoding = Some("p50k_base")

\* C26: encoding_for_model is deterministic: whatever order the hash maps
\* iterate in, the call can return one result only; a name that is a key
\* of the model table gets the encoding of that key even when a prefix
\* matches it too; and the prefixes that match one name map to one encoding.
C26_Deterministic ==
    resolved =>
        /\ encoding_for_model(model_name) = {encoding}
        /\ \A e \in MODEL_TO_ENCODING :
               e.model = model_name => encoding = Some(e.encoding)
        /\ \A p, q \in MODEL_PREFIX_TO_ENCODING :
               (IsPrefixOf(p.model, model_name) /\ IsPrefixOf(q.model, model_name))
                   => p.encoding = q.encoding

\* the lookup of a name that is a key of the model table and starts with a
\* registered prefix has returned
C26_Witness ==
    /\ resolved
    /\ \E e \in MODEL_TO_ENCODING : e.model = model_name
    /\ \E p \in MODEL_PREFIX_TO_ENCODING : IsPrefixOf(p.model, model_name)
    /\ encoding = Some("cl100k_base")

----------------------------------------------------------------------------
(* Further properties of the entry points, checked on the calls of Spec.   *)

\* C16: every id in the tokens an entry point returns is a key of the rank
\* table or of the special token table of the encoding of the call, so
\* decode of these tokens does not return an error.
C16_ReturnedIdsAreKnown ==
    (op \in {"tokenize", "tokenize_custom", "tokenize_with_special"}
        /\ result.ok) =>
        /\ \A i \in 1..Len(result.tokens) :
               token_known(CallEncoding, result.tokens[i])
        /\ decode(CallEncoding, result.tokens).ok

\* tokenize_custom returned ids of both tables
C16_Witness ==
    /\ op = "tokenize_custom"
    /\ result.ok
    /\ \E i \in 1..Len(result.tokens) : result.tokens[i] \in BaseIds(CallEncoding)
    /\ \E i \in 1..Len(result.tokens) : result.tokens[i] \notin BaseIds(CallEncoding)

C19_WithSpecialIsCustomWithRecognized ==
    /\ op = "tokenize_with_special" =>
           tokenize_custom(text, tokenizer, recognized_special(tokenizer))
               = {[result |-> result, loaded |-> TRUE]}
    /\ (op = "tokenize_custom"
            /\ allowed_special = recognized_special(tokenizer)) =>
           result = tokenize_with_special(text, tokenizer).result

\* tokenize_with_special has returned a special id
C19_Witness ==
    /\ op = "tokenize_with_special"
    /\ result.ok
    /\ \E i \in 1..Len(result.tokens) :
           result.tokens[i] \notin BaseIds(CallEncoding)

\* tokenize_custom has returned a special id with every recognized token allowed
C19_WitnessCustom ==
    /\ op = "tokenize_custom"
    /\ tokenizer = "P50KEdit"
    /\ allowed_special = recognized_special(tokenizer)
    /\ result.ok
    /\ \E i \in 1..Len(result.tokens) :
           result.tokens[i] \notin BaseIds(CallEncoding)

\* the recognized set of each tokenizer, written out
WrittenRecognized(t) ==
    CASE t = "CL100KBase" ->
             {"EndOfText", "FimPrefix", "FimMiddle", "FimSuffix", "EndOfPrompt"}
      [] t = "P50KEdit" -> {"EndOfText", "FimPrefix", "FimMiddle", "FimSuffix"}
      [] t = "P50KBase" -> {"EndOfText"}
      [] t = "R50KBase" -> {"EndOfText"}

\* C20: recognized_special() is all five special tokens for CL100KBase, all
\* but EndOfPrompt for P50KEdit, and EndOfText alone for R50KBase and
\* P50KBase, so the sets form the chain R50KBase = P50KBase, within
\* P50KEdit, within CL100KBase; and tokenize_custom accepts exactly the
\* allowed sets within the set of its tokenizer.
C20_RecognizedSets ==
    /\ \A t \in Tokenizer : recognized_special(t) = WrittenRecognized(t)
    /\ recognized_special("CL100KBase") = SpecialToken
    /\ recognized_special("P50KEdit") = SpecialToken \ {"EndOfPrompt"}
    /\ recognized_special("R50KBase") = recognized_special("P50KBase")
    /\ recognized_special("P50KBase") \subseteq recognized_special("P50KEdit")
    /\ recognized_special("P50KEdit") \subseteq recognized_special("CL100KBase")
    /\ op = "tokenize_custom" =>
           (result.ok <=> allowed_special \subseteq WrittenRecognized(tokenizer))

\* tokenize_custom has accepted all that P50KEdit recognizes
C20_Witness ==
    /\ op = "tokenize_custom"
    /\ tokenizer = "P50KEdit"
    /\ allowed_special = {"EndOfText", "FimPrefix", "FimMiddle", "FimSuffix"}
    /\ result.ok

\* tokenize_custom has rejected EndOfPrompt for P50KEdit
C20_WitnessRejected ==
    /\ op = "tokenize_custom"
    /\ tokenizer = "P50KEdit"
    /\ allowed_special = {"EndOfPrompt"}
    /\ ~result.ok

\* C21: for a text without a sentinel, tokenize, tokenize_with_special and
\* tokenize_custom (with any allowed set that passes its check) return the
\* same tokens: those the encoding of the tokenizer gives the text as
\* ordinary text.
C21_SameWithoutSentinel ==
    (NoSentinelIn(text)
        /\ op \in {"tokenize", "tokenize_custom", "tokenize_with_special"}) =>
        /\ op # "tokenize_custom" => result.ok
        /\ result.ok => result.tokens = encode_ordinary(CallEncoding, text)

\* tokenize_custom has returned tokens for a sentinel-free text with a
\* special token allowed
C21_Witness ==
    /\ op = "tokenize_custom"
    /\ NoSentinelIn(text)
    /\ allowed_special # {}
    /\ result.ok
    /\ Len(result.tokens) >= 1

\* tokenize_with_special has returned tokens for a sentinel-free text
C21_WitnessWithSpecial ==
    /\ op = "tokenize_with_special"
    /\ NoSentinelIn(text)
    /\ result.ok
    /\ Len(result.tokens) >= 1

----------------------------------------------------------------------------
(* Calls of decode on sequences of ids, some of them unknown to the        *)
(* encoding, with tokenize calls on the same encoding in between.          *)

\* decode is given at most MaxTokens ids
MaxTokens == 2

\* ids of the rank table of every encoding (0, 20), an id only some
\* encodings know (36), and an id no encoding knows (40)
DecodeIds == {0, 20, 36, 40}

RECURSIVE TokenSeqsUpTo(_)
TokenSeqsUpTo(n) ==
    IF n = 0 THEN {<<>>}
    ELSE LET shorter == TokenSeqsUpTo(n - 1)
         IN  shorter \cup {t \o <<id>> : t \in shorter, id \in DecodeIds}

TokenSeqs == TokenSeqsUpTo(MaxTokens)

DecodeInit ==
    /\ text \in TextsUpTo(1)
    /\ tokenizer \in Tokenizer
    /\ allowed_special = {}
    /\ op = "none"
    /\ result = NoResult
    /\ loads = [t \in Tokenizer |-> 0]
    /\ ids = <<>>
    /\ decoded = UnknownTokenId
    /\ called = "none"
    /\ failed = FALSE
    /\ MergeIdle
    /\ SingIdle
    /\ StreamIdle
    /\ ModelsIdle
    /\ BuilderIdle
    /\ MessagesIdle

\* the call made last was a decode that returned an error
LastCallFailed == called = "decode" /\ ~decoded.ok

\* decode of given ids, or of the tokens the last tokenize returned
Decode ==
    \E tokens \in TokenSeqs \cup {result.tokens} :
        /\ ids' = tokens
        /\ decoded' = decode(load_bpe(tokenizer).bpe, tokens)
        /\ called' = "decode"
        /\ failed' = (failed \/ LastCallFailed)
        /\ UNCHANGED notDecVars

\* tokenize on the encoding decode was called on
TokenizeAfterDecode ==
    /\ loads[tokenizer] < MaxLoads
    /\ op' = "tokenize"
    /\ result' = tokenize(text, tokenizer).result
    /\ loads' = [loads EXCEPT ![tokenizer] = @ + 1]
    /\ called' = "tokenize"
    /\ failed' = (failed \/ LastCallFailed)
    /\ UNCHANGED <<text, tokenizer, allowed_special, ids, decoded, mergeVars,
                   singVars, streamVars, modelVars, builderVars, msgVars>>

DecodeNext == Decode \/ TokenizeAfterDecode

SpecDecode == DecodeInit /\ [][DecodeNext]_vars

C17_WitnessFailure ==
    /\ called = "decode"
    /\ ids = <<0, 36>>
    /\ decoded = UnknownTokenId

----------------------------------------------------------------------------
(* The setters prompt, prompts, suffix and echo of CompletionBuilder in    *)
(* src/src/completions/completion_builder.rs, called in any order on one   *)
(* builder.  A panic ends the calls.                                       *)

\* prompts is given at most MaxPrompts strings
MaxPrompts == 2

PromptStrings == {"p", "q"}
SuffixStrings == {"s", "t"}

RECURSIVE PromptVecsUpTo(_)
PromptVecsUpTo(n) ==
    IF n = 0 THEN {<<>>}
    ELSE LET shorter == PromptVecsUpTo(n - 1)
         IN  shorter \cup {v \o <<x>> : v \in shorter, x \in PromptStrings}

PromptVecs == PromptVecsUpTo(MaxPrompts)

BuilderInit ==
    /\ prompt = NoPrompt
    /\ suffix = None
    /\ echo = FALSE
    /\ panicked = FALSE
    /\ setter = NoSetter
    /\ tokenizer = "CL100KBase"
    /\ TokIdle
    /\ MergeIdle
    /\ SingIdle
    /\ StreamIdle
    /\ ModelsIdle
    /\ DecodeIdle
    /\ MessagesIdle

\* the setter fn is called on the builder as it is
Setter(fn) ==
    [fn |-> fn, had_suffix |-> suffix.some, had_echo |-> echo,
     had_prompts |-> IF prompt.some THEN Len(prompt.vec) ELSE 0]

Prompt ==
    /\ ~panicked
    /\ \E x \in PromptStrings : prompt' = SomePrompt(<<x>>)
    /\ setter' = Setter("prompt")
    /\ UNCHANGED <<suffix, echo, panicked, notBuilderVars>>

Prompts ==
    /\ ~panicked
    /\ \E v \in PromptVecs : prompt' = SomePrompt(v)
    /\ setter' = Setter("prompts")
    /\ UNCHANGED <<suffix, echo, panicked, notBuilderVars>>

Suffix ==
    /\ ~panicked
    /\ setter' = Setter("suffix")
    /\ IF echo
       THEN panicked' = TRUE /\ UNCHANGED suffix
       ELSE IF prompt.some /\ Len(prompt.vec) > 1
            THEN panicked' = TRUE /\ UNCHANGED suffix
            ELSE /\ \E x \in SuffixStrings : suffix' = Some(x)
                 /\ UNCHANGED panicked
    /\ UNCHANGED <<prompt, echo, notBuilderVars>>

Echo ==
    /\ ~panicked
    /\ \E truth_value \in BOOLEAN : echo' = truth_value
    /\ setter' = Setter("echo")
    /\ UNCHANGED <<prompt, suffix, panicked, notBuilderVars>>

BuilderNext == Prompt \/ Prompts \/ Suffix \/ Echo

SpecBuilder == BuilderInit /\ [][BuilderNext]_vars

\* C24 as stated: prompts panics whenever a suffix has been set on the
\* builder, and suffix panics whenever echo is true or more than one prompt
\* is set.
C24_SettersPanic ==
    /\ (setter.fn = "prompts" /\ setter.had_suffix) => panicked
    /\ (setter.fn = "suffix" /\ (setter.had_echo \/ setter.had_prompts > 1))
           => panicked

\* C29 as stated: while no setter has panicked the builder holds no suffix
\* together with echo = true, and no suffix together with more than one
\* prompt.
C29_SuffixExcludesEchoAndPrompts ==
    (~panicked /\ suffix.some) =>
        /\ ~echo
        /\ ~(prompt.some /\ Len(prompt.vec) > 1)

----------------------------------------------------------------------------
(* Messages of src/src/completions/chat_builder.rs: the methods push,      *)
(* extend, push_response, clear and save_with_tokens on one value.         *)

\* data holds at most MaxMessages messages
MaxMessages == 2
\* tokens holds at most MaxTokenLists token lists
MaxTokenLists == 4

\* "a" and "a a"
Contents == {<<97>>, <<97, 32, 97>>}

\* enum Msg: a message of the user, or the message of a response choice
Msg == [kind : {"User", "Response"}, content : Contents]

\* Msg::tokens
Msg_tokens(msg) == tokenize(msg.content, "CL100KBase").result.tokens

\* the vectors of at most n messages
RECURSIVE MsgsUpTo(_)
MsgsUpTo(n) ==
    IF n = 0 THEN {<<>>}
    ELSE LET shorter == MsgsUpTo(n - 1)
         IN  shorter \cup {v \o <<m>> : v \in shorter, m \in Msg}

\* Messages::default()
MessagesInit ==
    /\ data = <<>>
    /\ msg_tokens = <<>>
    /\ save_with_tokens = FALSE
    /\ method = "none"
    /\ tokenizer = "CL100KBase"
    /\ TokIdle
    /\ MergeIdle
    /\ SingIdle
    /\ StreamIdle
    /\ ModelsIdle
    /\ DecodeIdle
    /\ BuilderIdle

Push ==
    /\ Len(data) < MaxMessages
    /\ \E msg \in Msg : data' = Append(data, msg)
    /\ method' = "push"
    /\ UNCHANGED <<msg_tokens, save_with_tokens, notMsgVars>>

Extend ==
    /\ \E msgs \in MsgsUpTo(MaxMessages - Len(data)) : data' = data \o msgs
    /\ method' = "extend"
    /\ UNCHANGED <<msg_tokens, save_with_tokens, notMsgVars>>

\* the messages of the choices of a response are appended
PushResponse ==
    /\ \E choices \in MsgsUpTo(MaxMessages - Len(data)) :
           /\ \A i \in 1..Len(choices) : choices[i].kind = "Response"
           /\ data' = data \o choices
    /\ method' = "push_response"
    /\ UNCHANGED <<msg_tokens, save_with_tokens, notMsgVars>>

Clear ==
    /\ data' = <<>>
    /\ method' = "clear"
    /\ UNCHANGED <<msg_tokens, save_with_tokens, notMsgVars>>

\* the tokens of every message of data are pushed onto tokens, the flag is
\* set, and the value is written to the file (the write changes no field)
SaveWithTokens ==
    /\ Len(msg_tokens) + Len(data) <= MaxTokenLists
    /\ msg_tokens' = msg_tokens \o [i \in 1..Len(data) |-> Msg_tokens(data[i])]
    /\ save_with_tokens' = TRUE
    /\ method' = "save_with_tokens"
    /\ UNCHANGED <<data, notMsgVars>>

MessagesNext == Push \/ Extend \/ PushResponse \/ Clear \/ SaveWithTokens

SpecMessages == MessagesInit /\ [][MessagesNext]_vars

\* C30 as stated: right after save_with_tokens the tokens list has one entry
\* per message of data, the i-th being the tokens of the i-th message.
C30_TokensMatchData ==
    method = "save_with_tokens" =>
        /\ Len(msg_tokens) = Len(data)
        /\ \A i \in 1..Len(data) : msg_tokens[i] = Msg_tokens(data[i])

====
